---- MODULE Spec2Model ----
(***************************************************************************)
(* cozyos-boot: the launcher of src/main.rs.  It reads a TOML              *)
(* configuration, expands path variables, builds the argument list of the  *)
(* guest `cozy-os`, spawns it and relays its exit status.                  *)
(*                                                                         *)
(* Representation.  A string is a sequence of lexemes; a lexeme is a run   *)
(* of characters that no operation of the program ever splits: the token   *)
(* "$(devroot)", the separator "/", a path component, a whole flag.  The   *)
(* empty string is <<>>.  An Option<T> is a sequence of length 0 (None) or *)
(* 1 (Some(v)).  A filesystem path is, once resolved, a sequence of        *)
(* components (each a string).                                             *)
(***************************************************************************)
EXTENDS Integers, Sequences, FiniteSets, TLC

VARIABLES
    pc,          \* position of main(): the stage about to run, or "exited"
    opts,        \* Args, as parsed by clap
    home,        \* what dirs::home_dir() answers: Option of a directory
    cfgDir,      \* does <home>/.config/cozyboot exist
    files,       \* config files: path name -> Option of file content
    devroot,     \* the DEVROOT environment variable: Option of a string
    fs,          \* the volatile directories that exist now
    fsChanges,   \* how many times another process changed fs
    config,      \* Option of the parsed CozyBootConfig
    config_content, \* Option of the document read from the config file
    expanded_kern_root, \* Option of the string the existence check saw
    argv,        \* Option of the argument list of `command`
    status,      \* Option of the guest's ExitStatus
    exitCode,    \* Option of the exit code of the launcher process
    log,         \* the stages that ran, in order, each with its outcome (history)
    files0,      \* the config files when the process started (history)
    builds,      \* the argument lists built so far from one same input
    xin,         \* input of expand_variables (expander runs)
    xout         \* results of expand_variables applied 1, 2, ... times

vars == <<pc, opts, home, cfgDir, files, devroot, fs, fsChanges, config,
          config_content, expanded_kern_root, argv, status, exitCode, log, files0,
          builds, xin, xout>>

(***************************************************************************)
(* Bounds of the model.                                                    *)
(***************************************************************************)
MaxBootArgs == 2      \* entries of the [bootargs] table
MaxExpansions == 2    \* successive applications of expand_variables
MaxFsChanges == 1     \* changes of the filesystem by other processes
MaxGuestCode == 3     \* the guest exits with a code in 0..MaxGuestCode

None == <<>>
Some(v) == <<v>>
IsSome(o) == Len(o) = 1
Unwrap(o) == o[1]

(***************************************************************************)
(* Strings and the filesystem (std::fs, std::path).                        *)
(***************************************************************************)
DevrootToken == "$(devroot)"

RECURSIVE replace(_, _, _)
\* str::replace: every occurrence of the lexeme `from`, left to right, by `to`;
\* what was substituted is not scanned again
replace(s, from, to) ==
    IF s = <<>> THEN <<>>
    ELSE (IF Head(s) = from THEN to ELSE <<Head(s)>>) \o replace(Tail(s), from, to)

RECURSIVE Components(_, _)
\* the components of a path string: maximal runs between "/" separators
Components(s, cur) ==
    IF s = <<>> THEN <<cur>>
    ELSE IF Head(s) = "/" THEN <<cur>> \o Components(Tail(s), <<>>)
    ELSE Components(Tail(s), Append(cur, Head(s)))

\* empty components and "." name the directory itself
Normal(cs) == SelectSeq(cs, LAMBDA c: c # <<>> /\ c # <<".">>)

Cwd == << <<"w">> >>          \* the working directory of the process, /w
IsAbsolute(s) == s # <<>> /\ Head(s) = "/"

\* the absolute location a path string names
Resolve(s) == (IF IsAbsolute(s) THEN <<>> ELSE Cwd) \o Normal(Components(s, <<>>))

RECURSIVE Render(_)
Render(cs) == IF cs = <<>> THEN <<>> ELSE <<"/">> \o Head(cs) \o Render(Tail(cs))
\* an absolute, normalised path as a string
PathString(cs) == IF cs = <<>> THEN <<"/">> ELSE Render(cs)

\* directories that exist in every run: /, /w (the cwd), /d
StableDirs == { <<>>, << <<"w">> >>, << <<"d">> >> }
\* directories another process may create or remove while main() runs
VolatileDirs == { << <<"w">>, <<"k">> >>, << <<"d">> , <<"k">> >>, << <<"w">>, <<"u">> >> }

\* Path::exists: the path names something that is there now ("" names nothing)
exists(s, f) == s # <<>> /\ Resolve(s) \in StableDirs \cup f

\* std::fs::canonicalize: Ok(absolute normalised path) if the path exists
canonicalize(s, f) == IF exists(s, f) THEN Some(PathString(Resolve(s))) ELSE None

\* a plausible slip: make the path absolute without asking the filesystem
expand_variables_absolutize(path, dv, f) ==
    PathString(Resolve(replace(path, DevrootToken, IF IsSome(dv) THEN Unwrap(dv) ELSE <<".">>)))

\* fn expand_variables(path) -> String, under environment dv and filesystem f
expand_variables(path, dv, f) ==
    LET devroot_ == IF IsSome(dv) THEN Unwrap(dv) ELSE <<".">>
        result == replace(path, DevrootToken, devroot_)
        absolute_path == canonicalize(result, f)
    IN  IF IsSome(absolute_path) THEN Unwrap(absolute_path) ELSE result

DevrootValues == { None, Some(<<"/", "d">>), Some(<<DevrootToken, "/", "d">>) }

\* path strings a configuration or a caller may hold
PathStrings ==
    { <<>>, <<"k">>, <<".", "/", "k">>, <<"/", "w", "/", "k">>, <<"/", "d", "/", "k">>,
      <<DevrootToken, "/", "k">>, <<DevrootToken, "/", "u">>, <<"u">>,
      <<"/", "w", "/", "/", "u">>, <<"nowhere">>, <<"--allow-32bit">>, <<"/">> }

HasToken(s) == \E i \in 1..Len(s) : s[i] = DevrootToken

(***************************************************************************)
(* The configuration file and its schema (CozyBootConfig).                 *)
(*                                                                         *)
(* A document is what the text of a file says: the two keys of [main],     *)
(* each present or not, the [bootargs] entries in the order the file       *)
(* declares them, and the three optional booleans of [bin].  A file is a   *)
(* document that can be read as UTF-8 text or cannot.                      *)
(***************************************************************************)
BootKeys == { <<"a">>, <<"b">>, <<"c">> }
BootValue(k) == IF k = <<"b">> THEN <<"2">> ELSE <<"1">>

\* the sequences of at most n distinct keys
DistinctSeqs(n) ==
    { s \in UNION { [1..m -> BootKeys] : m \in 0..n } :
        \A i, j \in 1..Len(s) : i # j => s[i] # s[j] }

OptionBool == { None, Some(TRUE), Some(FALSE) }
BinSettings == [allow_32bit : OptionBool, allow_universal : OptionBool,
                allow_64bit : OptionBool]

Entries(keys) == [i \in 1..Len(keys) |-> [key |-> keys[i], value |-> BootValue(keys[i])]]

Doc(kern, user, keys, bin) ==
    [kern_root |-> kern, user_root |-> user, bootargs |-> Entries(keys), bin |-> bin]

\* toml::from_str::<CozyBootConfig>: all or nothing; the [bootargs] table
\* becomes a HashMap, which keeps the pairs and forgets their order
from_str(doc) ==
    IF IsSome(doc.kern_root) /\ IsSome(doc.user_root)
    THEN Some([main |-> [kern_root |-> Unwrap(doc.kern_root),
                         user_root |-> Unwrap(doc.user_root)],
               bootargs |-> [k \in { doc.bootargs[i].key : i \in 1..Len(doc.bootargs) } |->
                   doc.bootargs[CHOOSE i \in 1..Len(doc.bootargs) : doc.bootargs[i].key = k].value],
               bin |-> doc.bin])
    ELSE None

\* the orders in which iterating a HashMap with these keys may yield them
IterationOrders(m) ==
    { s \in [1..Cardinality(DOMAIN m) -> DOMAIN m] :
        \A i, j \in 1..Len(s) : i # j => s[i] # s[j] }

(***************************************************************************)
(* The argument list of `command` (main, lines 146-180).                   *)
(***************************************************************************)
\* bool::to_string
to_string(b) == IF b THEN <<"true">> ELSE <<"false">>

\* format!("--{}={}", key, value)
format_bootarg(key, value) == <<"--">> \o key \o <<"=">> \o value

\* a plausible slip: the 64bit flag emitted before the universal one
bin_args_swapped(bin) ==
    (IF IsSome(bin.allow_32bit)
        THEN << <<"--allow-32bit">>, to_string(Unwrap(bin.allow_32bit)) >> ELSE <<>>)
    \o (IF IsSome(bin.allow_64bit)
        THEN << <<"--allow-64bit">>, to_string(Unwrap(bin.allow_64bit)) >> ELSE <<>>)
    \o (IF IsSome(bin.allow_universal)
        THEN << <<"--allow-universal">>, to_string(Unwrap(bin.allow_universal)) >> ELSE <<>>)

\* a plausible slip: a flag whose value is false is left out
bin_args_truthy(bin) ==
    (IF bin.allow_32bit = Some(TRUE)
        THEN << <<"--allow-32bit">>, to_string(TRUE) >> ELSE <<>>)
    \o (IF IsSome(bin.allow_universal)
        THEN << <<"--allow-universal">>, to_string(Unwrap(bin.allow_universal)) >> ELSE <<>>)
    \o (IF IsSome(bin.allow_64bit)
        THEN << <<"--allow-64bit">>, to_string(Unwrap(bin.allow_64bit)) >> ELSE <<>>)

\* "Configure binary settings"
bin_args(bin) ==
    (IF IsSome(bin.allow_32bit)
        THEN << <<"--allow-32bit">>, to_string(Unwrap(bin.allow_32bit)) >> ELSE <<>>)
    \o (IF IsSome(bin.allow_universal)
        THEN << <<"--allow-universal">>, to_string(Unwrap(bin.allow_universal)) >> ELSE <<>>)
    \o (IF IsSome(bin.allow_64bit)
        THEN << <<"--allow-64bit">>, to_string(Unwrap(bin.allow_64bit)) >> ELSE <<>>)

\* "Add boot arguments": one token per pair, in the order the map yields them
bootargs_args(bootargs, iter) ==
    [i \in 1..Len(iter) |-> format_bootarg(iter[i], bootargs[iter[i]])]

\* the whole list: cfg the configuration, args the Args, iter the order in
\* which the HashMap is iterated, dv and f the environment and the
\* filesystem at the time the two roots are expanded
command_args(cfg, args, iter, dv, f) ==
    << <<"--kern-root">>, expand_variables(cfg.main.kern_root, dv, f),
       <<"--user-root">>, expand_variables(cfg.main.user_root, dv, f) >>
    \o bootargs_args(cfg.bootargs, iter)
    \o bin_args(cfg.bin)
    \o (IF IsSome(args.boot_string)
        THEN << <<"--boot-string">>, Unwrap(args.boot_string) >> ELSE <<>>)
    \o (IF args.debug THEN << <<"--debug">> >> ELSE <<>>)

(***************************************************************************)
(* The inputs of a run.                                                    *)
(***************************************************************************)
HomeDir == <<"/", "h">>
CustomPath == <<"/", "c", "/", "my.toml">>

\* home.join(".config/cozyboot/cozyboot.toml")
DefaultPath(h) == h \o <<"/", ".config/cozyboot/cozyboot.toml">>

\* fn get_config_path(config_arg); None stands for the panic of expect()
get_config_path(config_arg, h) ==
    IF IsSome(config_arg) THEN Some(Unwrap(config_arg))
    ELSE IF IsSome(h) THEN Some(DefaultPath(Unwrap(h)))
    ELSE None

NoBin == [allow_32bit |-> None, allow_universal |-> None, allow_64bit |-> None]

\* include_str!("../default_config.toml"): the bundled template
DefaultConfig ==
    [readable |-> TRUE,
     doc |-> Doc(Some(<<DevrootToken, "/", "k">>), Some(<<DevrootToken, "/", "u">>),
                 <<>>, NoBin)]

\* the files a run of the whole program may find
Files ==
    { DefaultConfig,
      \* not UTF-8: fs::read_to_string fails
      [readable |-> FALSE, doc |-> DefaultConfig.doc],
      \* [main] lacks user_root
      [readable |-> TRUE, doc |-> Doc(Some(<<"k">>), None, <<>>, NoBin)] }
    \cup { [readable |-> TRUE, doc |-> Doc(Some(k), Some(<<DevrootToken, "/", "u">>),
                                          << <<"a">>, <<"b">> >>,
                                          [NoBin EXCEPT !.allow_64bit = Some(TRUE)])] :
             k \in { <<"k">>, <<"/", "d", "/", "k">>, <<"nowhere">> } }

GuestStatuses == { None } \cup { Some(c) : c \in 0..MaxGuestCode }

(***************************************************************************)
(* main(), stage by stage.  A stage is the code between two points at      *)
(* which the process looks at the world outside it.                        *)
(***************************************************************************)
\* an entry of the log: the stage that ran and whether it achieved what the
\* stages after it rely on
Stage(name, ok) == [stage |-> name, ok |-> ok]

\* std::process::exit(code), or main returning: the process is over
Exit(code) ==
    /\ pc' = "exited"
    /\ exitCode' = Some(code)

\* the exit code of a Rust process whose main thread panics
PanicCode == 101
\* the exit code of a Rust process whose main returns Err
ErrCode == 1

\* home_dir().expect(..) in ensure_config_dir: what the process does when
\* there is no home directory
NoHomeCode == PanicCode

\* lines 106-107 and fn ensure_config_dir (70-84)
EnsureConfigDir ==
    /\ pc = "ensure"
    /\ UNCHANGED <<opts, home, devroot, fs, fsChanges, config, config_content,
                   expanded_kern_root, argv, status, files0, builds, xin, xout>>
    /\ IF ~IsSome(home)
       THEN /\ Exit(NoHomeCode)
            /\ log' = Append(log, Stage("ensure", FALSE))
            /\ UNCHANGED <<cfgDir, files>>
       ELSE IF cfgDir
       THEN /\ pc' = "resolve"
            /\ log' = Append(log, Stage("ensure", TRUE))
            /\ UNCHANGED <<cfgDir, files, exitCode>>
       ELSE \E created, wrote \in BOOLEAN :
            \* create_dir_all and fs::write each succeed or fail
            /\ cfgDir' = created
            /\ files' = IF created /\ wrote
                        THEN [files EXCEPT ![DefaultPath(Unwrap(home))] = Some(DefaultConfig)]
                        ELSE files
            /\ log' = Append(log, Stage("ensure", created /\ wrote))
            /\ IF created /\ wrote
               THEN pc' = "resolve" /\ UNCHANGED exitCode
               ELSE Exit(ErrCode)

\* lines 109-115: get_config_path, then config_path.exists()
ResolveConfigPath ==
    /\ pc = "resolve"
    /\ UNCHANGED <<opts, home, cfgDir, files, devroot, fs, fsChanges, config,
                   config_content, expanded_kern_root, argv, status, files0,
                   builds, xin, xout>>
    /\ LET config_path == get_config_path(opts.config, home)
       IN  IF ~IsSome(config_path)
           THEN Exit(NoHomeCode) /\ log' = Append(log, Stage("resolve", FALSE))
           ELSE IF ~IsSome(files[Unwrap(config_path)])
           THEN Exit(1) /\ log' = Append(log, Stage("resolve", FALSE))
           ELSE /\ pc' = "read"
                /\ log' = Append(log, Stage("resolve", TRUE))
                /\ UNCHANGED exitCode

\* lines 121-132: fs::read_to_string(..)? and toml::from_str
ReadConfig ==
    /\ pc = "read"
    /\ UNCHANGED <<opts, home, cfgDir, files, devroot, fs, fsChanges,
                   expanded_kern_root, argv, status, files0, builds, xin, xout>>
    /\ LET file == Unwrap(files[Unwrap(get_config_path(opts.config, home))])
       IN  IF ~file.readable
           THEN /\ Exit(ErrCode)
                /\ log' = Append(log, Stage("read", FALSE))
                /\ UNCHANGED <<config, config_content>>
           ELSE /\ config_content' = Some(file.doc)
                /\ config' = from_str(file.doc)
                /\ log' = Append(log, Stage("read", IsSome(from_str(file.doc))))
                /\ IF IsSome(from_str(file.doc))
                   THEN pc' = "validate" /\ UNCHANGED exitCode
                   ELSE Exit(1)

\* a plausible slip: the check of the kernel root forgotten
kern_root_missing_never(expanded, f) == FALSE

\* line 136: !Path::new(&expanded_kern_root).exists()
kern_root_missing(expanded, f) == ~exists(expanded, f)

\* lines 134-140: "Validate OS path"
ValidateKernRoot ==
    /\ pc = "validate"
    /\ UNCHANGED <<opts, home, cfgDir, files, devroot, fs, fsChanges, config,
                   config_content, argv, status, files0, builds, xin, xout>>
    /\ LET expanded == expand_variables(Unwrap(config).main.kern_root, devroot, fs)
       IN  /\ expanded_kern_root' = Some(expanded)
           /\ log' = Append(log, Stage("validate", exists(expanded, fs)))
           /\ IF kern_root_missing(expanded, fs)
              THEN Exit(1)
              ELSE pc' = "build" /\ UNCHANGED exitCode

\* lines 146-180: "Build command arguments"
BuildCommand ==
    /\ pc = "build"
    /\ UNCHANGED <<opts, home, cfgDir, files, devroot, fs, fsChanges, config,
                   config_content, expanded_kern_root, status, exitCode, files0,
                   builds, xin, xout>>
    /\ \E iter \in IterationOrders(Unwrap(config).bootargs) :
          argv' = Some(command_args(Unwrap(config), opts, iter, devroot, fs))
    /\ log' = Append(log, Stage("build", TRUE))
    /\ pc' = "spawn"

\* line 187, first half: command.status() starts the guest, or fails to
Spawn ==
    /\ pc = "spawn"
    /\ UNCHANGED <<opts, home, cfgDir, files, devroot, fs, fsChanges, config,
                   config_content, expanded_kern_root, argv, status, files0,
                   builds, xin, xout>>
    /\ \E started \in BOOLEAN :
          /\ log' = Append(log, Stage("spawn", started))
          /\ IF started
             THEN pc' = "wait" /\ UNCHANGED exitCode
             ELSE Exit(ErrCode)

\* line 187, second half: the guest terminates and status() returns
GuestTerminates ==
    /\ pc = "wait"
    /\ UNCHANGED <<opts, home, cfgDir, files, devroot, fs, fsChanges, config,
                   config_content, expanded_kern_root, argv, exitCode, log, files0,
                   builds, xin, xout>>
    /\ \E st \in GuestStatuses : status' = Some(st)
    /\ pc' = "relay"

\* ExitStatus::success
success(st) == st = Some(0)

\* a plausible slip: every failure of the guest reported as 1
relay_code_flat(st) == IF success(st) THEN 0 ELSE 1

\* lines 189-198: the exit code of the launcher, from the guest's status
relay_code(st) ==
    IF ~success(st)
    THEN (IF IsSome(st) THEN Unwrap(st) ELSE 1)     \* status.code().unwrap_or(1)
    ELSE 0                                           \* Ok(())

\* lines 189-198
Relay ==
    /\ pc = "relay"
    /\ UNCHANGED <<opts, home, cfgDir, files, devroot, fs, fsChanges, config,
                   config_content, expanded_kern_root, argv, status, files0,
                   builds, xin, xout>>
    /\ log' = Append(log, Stage("relay", success(Unwrap(status))))
    /\ Exit(relay_code(Unwrap(status)))

\* another process creates or removes a directory while main() runs
FsChange ==
    /\ pc # "exited"
    /\ fsChanges < MaxFsChanges
    /\ \E d \in VolatileDirs :
          fs' = IF d \in fs THEN fs \ {d} ELSE fs \cup {d}
    /\ fsChanges' = fsChanges + 1
    /\ UNCHANGED <<pc, opts, home, cfgDir, files, devroot, config, config_content,
                   expanded_kern_root, argv, status, exitCode, log, files0,
                   builds, xin, xout>>

\* Args; `verbose` only gates println! and is left out
ArgsValues ==
    [config : { None, Some(CustomPath) }, debug : BOOLEAN,
     boot_string : { None, Some(<<"single">>) }]

Init ==
    /\ pc = "ensure"
    /\ opts \in ArgsValues
    /\ home \in { None, Some(HomeDir) }
    /\ cfgDir \in (IF IsSome(home) THEN BOOLEAN ELSE {FALSE})
    /\ files \in [ {DefaultPath(HomeDir), CustomPath} ->
                     { None } \cup { Some(f) : f \in Files } ]
    /\ (~cfgDir => ~IsSome(files[DefaultPath(HomeDir)]))
    /\ devroot \in { None, Some(<<"/", "d">>) }
    /\ fs \in SUBSET VolatileDirs
    /\ fsChanges = 0
    /\ config = None
    /\ config_content = None
    /\ expanded_kern_root = None
    /\ argv = None
    /\ status = None
    /\ exitCode = None
    /\ log = <<>>
    /\ files0 = files
    /\ builds = {}
    /\ xin = <<>>
    /\ xout = <<>>

Next ==
    \/ EnsureConfigDir
    \/ ResolveConfigPath
    \/ ReadConfig
    \/ ValidateKernRoot
    \/ BuildCommand
    \/ Spawn
    \/ GuestTerminates
    \/ Relay
    \/ FsChange

Spec == Init /\ [][Next]_vars

(***************************************************************************)
(* The builder on its own: the launcher is started again and again on one  *)
(* same configuration file, Args, environment and filesystem, and every    *)
(* run reaches lines 146-180.  builds collects the argument lists.         *)
(***************************************************************************)
BuilderDocs ==
    { Doc(Some(<<DevrootToken, "/", "k">>), Some(u), keys, bin) :
        u \in { <<DevrootToken, "/", "u">>, <<"--allow-32bit">> },
        keys \in DistinctSeqs(MaxBootArgs),
        bin \in BinSettings }

BuilderArgs ==
    [config : { None }, debug : BOOLEAN,
     boot_string : { None, Some(<<"single">>), Some(<<"--allow-64bit">>) }]

\* the variables of main() that a run of the builder or of the expander
\* alone does not use
Unused ==
    /\ home = Some(HomeDir)
    /\ cfgDir = TRUE
    /\ files = [q \in {DefaultPath(HomeDir), CustomPath} |-> None]
    /\ files0 = files
    /\ fsChanges = 0
    /\ expanded_kern_root = None
    /\ argv = None
    /\ status = None
    /\ exitCode = None
    /\ log = <<>>

InitBuild ==
    /\ pc = "builder"
    /\ Unused
    /\ opts \in BuilderArgs
    /\ \E doc \in BuilderDocs :
          /\ config_content = Some(doc)
          /\ config = from_str(doc)
    /\ devroot \in { None, Some(<<"/", "d">>) }
    \* the kernel root is there (the run got past its validation); the user
    \* root is there or not
    /\ fs \in { VolatileDirs \ { << <<"w">>, <<"u">> >> }, VolatileDirs }
    /\ builds = {}
    /\ xin = <<>>
    /\ xout = <<>>

\* lines 146-180, once more on the same input
Rebuild ==
    /\ pc = "builder"
    /\ \E iter \in IterationOrders(Unwrap(config).bootargs) :
          builds' = builds \cup { command_args(Unwrap(config), opts, iter, devroot, fs) }
    /\ UNCHANGED <<pc, opts, home, cfgDir, files, devroot, fs, fsChanges, config,
                   config_content, expanded_kern_root, argv, status, exitCode, log,
                   files0, xin, xout>>

NextBuild == Rebuild

SpecBuild == InitBuild /\ [][NextBuild]_vars

(***************************************************************************)
(* The expander on its own: expand_variables applied to a string, then to  *)
(* its own result, under one environment and one filesystem.               *)
(***************************************************************************)
InitExpand ==
    /\ pc = "expander"
    /\ Unused
    /\ opts \in [config : { None }, debug : { FALSE }, boot_string : { None }]
    /\ config = None
    /\ config_content = None
    /\ devroot \in DevrootValues
    /\ fs \in SUBSET VolatileDirs
    /\ builds = {}
    /\ xin \in PathStrings
    /\ xout = <<>>

Expand ==
    /\ pc = "expander"
    /\ Len(xout) < MaxExpansions
    /\ xout' = Append(xout, expand_variables(IF xout = <<>> THEN xin ELSE xout[Len(xout)],
                                             devroot, fs))
    /\ UNCHANGED <<pc, opts, home, cfgDir, files, devroot, fs, fsChanges, config,
                   config_content, expanded_kern_root, argv, status, exitCode, log,
                   files0, builds, xin>>

NextExpand == Expand

SpecExpand == InitExpand /\ [][NextExpand]_vars

(***************************************************************************)
(* What the log says.                                                      *)
(***************************************************************************)
Succeeded(name) == \E i \in 1..Len(log) : log[i] = Stage(name, TRUE)
Attempts(name) == Cardinality({ i \in 1..Len(log) : log[i].stage = name })

\* the stages of a run in which the guest starts, up to the spawn
SpawnPrefix ==
    << Stage("ensure", TRUE), Stage("resolve", TRUE), Stage("read", TRUE),
       Stage("validate", TRUE), Stage("build", TRUE), Stage("spawn", TRUE) >>

(***************************************************************************)
(* C4.  Once the guest has been spawned and has terminated, the exit code  *)
(* of the launcher is the guest's: 0 for 0, c unchanged for a non-zero c,  *)
(* and 1 for a guest that ended without an exit code (killed by a signal). *)
(***************************************************************************)
C4_ExitCodeRelayed ==
    (pc = "exited" /\ IsSome(status)) =>
        LET st == Unwrap(status)
        IN  /\ st = Some(0) => exitCode = Some(0)
            /\ (IsSome(st) /\ st # Some(0)) => exitCode = st
            /\ st = None => exitCode = Some(1)

\* the guest ended with the largest non-zero code and the launcher relayed it
C4_Witness ==
    /\ pc = "exited"
    /\ status = Some(Some(MaxGuestCode))
    /\ MaxGuestCode > 1
    /\ exitCode = Some(MaxGuestCode)

(***************************************************************************)
(* C5.  Every failure on the launcher's side ends the process with exit    *)
(* code exactly 1 (no home directory, config directory or default file not *)
(* creatable, config file missing, parse error, kernel root missing, spawn *)
(* failure); so the exit code is always 0, 1 or a code the guest returned. *)
(***************************************************************************)
C5_LauncherFailuresExitOne ==
    pc = "exited" =>
        /\ ~IsSome(status) => exitCode = Some(1)
        /\ \/ exitCode \in { Some(0), Some(1) }
           \/ IsSome(status) /\ exitCode = Unwrap(status)

(***************************************************************************)
(* C6.  The pipeline is sequential and fail-stop: the guest is spawned at  *)
(* most once, and only after the config directory step succeeded, the      *)
(* config file was found, it parsed, and the expanded kern_root was found  *)
(* to exist; after a stage fails no later stage runs.                      *)
(***************************************************************************)
C6_FailStop ==
    /\ Attempts("spawn") <= 1
    /\ Succeeded("spawn") => SubSeq(log, 1, Len(SpawnPrefix)) = SpawnPrefix
    /\ \A i \in 1..Len(log) : ~log[i].ok => (i = Len(log) /\ pc = "exited")
    /\ \A i, j \in 1..Len(log) : log[i].stage = log[j].stage => i = j

\* the guest was spawned and is running, in a run during which another
\* process changed the filesystem
C6_Witness ==
    /\ pc = "wait"
    /\ Succeeded("spawn")
    /\ fsChanges > 0

(***************************************************************************)
(* C8.  After the config-home ensure step returns successfully, the        *)
(* default config directory and the default config file in it both exist,  *)
(* whatever was there before (no directory; directory with the file;       *)
(* directory without the file); and a config file that was there is not    *)
(* overwritten.                                                            *)
(***************************************************************************)
C8_EnsureLeavesDirAndFile ==
    Succeeded("ensure") =>
        /\ cfgDir
        /\ IsSome(files[DefaultPath(HomeDir)])
        /\ \A q \in DOMAIN files : IsSome(files0[q]) => files[q] = files0[q]

(***************************************************************************)
(* C9.  Expansion is idempotent on a string s that holds no `$(devroot)`   *)
(* token and names a path that does not exist: expand(s) = s and           *)
(* expand(expand(s)) = expand(s), for every DEVROOT, unset included.       *)
(***************************************************************************)
C9_ExpandIdempotent ==
    (~HasToken(xin) /\ ~exists(xin, fs)) =>
        /\ Len(xout) >= 1 => xout[1] = xin
        /\ \A i \in 2..Len(xout) : xout[i] = xout[1]

\* twice applied to a relative path that is not there, DEVROOT set
C9_Witness ==
    /\ Len(xout) >= 2
    /\ xin = <<"k">>
    /\ ~exists(xin, fs)
    /\ IsSome(devroot)
    /\ fs # {}

(***************************************************************************)
(* C10.  Whenever the guest is spawned, the value after `--kern-root` is   *)
(* exactly the expanded string that the existence check validated, even if *)
(* the filesystem changes between the validation and the building of the   *)
(* arguments.                                                              *)
(***************************************************************************)
C10_KernRootArgIsValidated ==
    Succeeded("spawn") => Unwrap(argv)[2] = Unwrap(expanded_kern_root)

(***************************************************************************)
(* The argument list, as the specification describes it.                   *)
(***************************************************************************)
\* the document the builder runs were given
BuiltFrom == Unwrap(config_content)

\* the token of the i-th declared [bootargs] entry
DeclaredToken(i) ==
    <<"--">> \o BuiltFrom.bootargs[i].key \o <<"=">> \o BuiltFrom.bootargs[i].value

\* the three [bin] fields with their flags, in the fixed order
BinFields ==
    << [flag |-> <<"--allow-32bit">>, field |-> BuiltFrom.bin.allow_32bit],
       [flag |-> <<"--allow-universal">>, field |-> BuiltFrom.bin.allow_universal],
       [flag |-> <<"--allow-64bit">>, field |-> BuiltFrom.bin.allow_64bit] >>

Rendered(b) == IF b THEN <<"true">> ELSE <<"false">>

RECURSIVE FlagPairs(_)
\* a `--flag <true|false>` pair for each present field of the list
FlagPairs(l) ==
    IF l = <<>> THEN <<>>
    ELSE (IF IsSome(Head(l).field)
          THEN << Head(l).flag, Rendered(Unwrap(Head(l).field)) >> ELSE <<>>)
         \o FlagPairs(Tail(l))

\* the positions of an argument list at which a token equals t
Occurrences(a, t) == { i \in 1..Len(a) : a[i] = t }

\* the positions that hold a value the user chose: the two roots and the
\* boot string
ValuePositions(a) ==
    {2, 4} \cup (IF IsSome(opts.boot_string)
                 THEN { Len(a) - (IF opts.debug THEN 1 ELSE 0) } ELSE {})

(***************************************************************************)
(* C1.  The argument list has its segments in this fixed order:            *)
(* `--kern-root <v>`, `--user-root <v>`, all the `--key=value` bootargs    *)
(* tokens, the present bin flags in the order allow-32bit,                 *)
(* allow-universal, allow-64bit, `--boot-string <v>` if a boot string was  *)
(* given, `--debug` if debug is set.                                       *)
(***************************************************************************)
C1_SegmentsInOrder ==
    \A a \in builds :
        LET n == Len(BuiltFrom.bootargs)
        IN  /\ Len(a) >= 4 + n
            /\ a[1] = <<"--kern-root">>
            /\ a[3] = <<"--user-root">>
            /\ { a[i] : i \in 5..(4 + n) } = { DeclaredToken(i) : i \in 1..n }
            /\ SubSeq(a, 5 + n, Len(a)) =
                   FlagPairs(BinFields)
                   \o (IF IsSome(opts.boot_string)
                       THEN << <<"--boot-string">>, Unwrap(opts.boot_string) >> ELSE <<>>)
                   \o (IF opts.debug THEN << <<"--debug">> >> ELSE <<>>)

\* a list in which every segment is there
C1_Witness ==
    \E a \in builds :
        /\ Len(BuiltFrom.bootargs) = MaxBootArgs
        /\ \A i \in 1..3 : IsSome(BinFields[i].field)
        /\ IsSome(opts.boot_string)
        /\ opts.debug
        /\ a[Len(a)] = <<"--debug">>

(***************************************************************************)
(* C2.  If the `bootargs` table declares key a before key b, the argument  *)
(* list holds `--a=<va>` before `--b=<vb>`: the bootargs tokens come in    *)
(* the order of declaration.                                               *)
(***************************************************************************)
C2_BootargsInDeclaredOrder ==
    \A a \in builds :
        \A i, j \in 1..Len(BuiltFrom.bootargs) :
            i < j => \E p, q \in 1..Len(a) :
                        p < q /\ a[p] = DeclaredToken(i) /\ a[q] = DeclaredToken(j)

(***************************************************************************)
(* C3.  Building is deterministic: two builds from the same configuration  *)
(* file content and the same runtime options, environment and filesystem   *)
(* yield the same argument list, token for token.                          *)
(***************************************************************************)
C3_BuildDeterministic == \A a, b \in builds : a = b

(***************************************************************************)
(* C7.  For each of allow_32bit, allow_universal, allow_64bit: if the      *)
(* field is present with boolean b, the argument list holds exactly one    *)
(* `--allow-<name>`, immediately followed by "true" or "false" as b is; if *)
(* the field is absent, the list holds no `--allow-<name>` token at all.   *)
(***************************************************************************)
C7_BinFlagsExactlyOnce ==
    \A a \in builds : \A k \in 1..3 :
        LET occ == Occurrences(a, BinFields[k].flag)
        IN  IF IsSome(BinFields[k].field)
            THEN /\ Cardinality(occ) = 1
                 /\ \A i \in occ : i < Len(a) /\ a[i + 1] = Rendered(Unwrap(BinFields[k].field))
            ELSE occ = {}

(***************************************************************************)
(* C7, amended.  The same, counting only the tokens that are not a value   *)
(* chosen by the user (the values after `--kern-root`, `--user-root` and   *)
(* `--boot-string`): such a value is passed as it is, and may itself read  *)
(* `--allow-<name>`.                                                       *)
(***************************************************************************)
C7_BinFlagsExactlyOnceAmongFlags ==
    \A a \in builds : \A k \in 1..3 :
        LET occ == Occurrences(a, BinFields[k].flag) \ ValuePositions(a)
        IN  IF IsSome(BinFields[k].field)
            THEN /\ Cardinality(occ) = 1
                 /\ \A i \in occ : i < Len(a) /\ a[i + 1] = Rendered(Unwrap(BinFields[k].field))
            ELSE occ = {}

\* one field false, one absent, one true, and a user root that reads as a flag
C7_Witness ==
    \E a \in builds :
        /\ BuiltFrom.bin.allow_32bit = Some(FALSE)
        /\ BuiltFrom.bin.allow_universal = None
        /\ BuiltFrom.bin.allow_64bit = Some(TRUE)
        /\ a[4] = <<"--allow-32bit">>
        /\ Cardinality(Occurrences(a, <<"--allow-32bit">>)) = 2

====
